---- MODULE Spec2Model ----
(***************************************************************************)
(* Readiness checkers of the PCM photo management system.                  *)
(*                                                                         *)
(*   scripts/validate-setup.py  the Structural Validator                   *)
(*   scripts/test-startup.py    the Startup Prober                         *)
(*                                                                         *)
(* The state is one process running one of the two scripts: its working    *)
(* directory, sys.path, sys.modules, the locals of main(), the lines it    *)
(* printed and the value main() returned.  The environment is the project  *)
(* tree (the kind of entry at each required path) and the behaviour of the *)
(* backend modules the scripts import.                                     *)
(***************************************************************************)
EXTENDS Integers, Sequences, FiniteSets, TLC

VARIABLES
    flow,        \* which script the process runs: "validate" | "startup"
    tree,        \* project root: required path -> "absent" | "file" | "dir"
    invokeDir,   \* directory the script was invoked from: "root" | "elsewhere"
    cwd,         \* the process's working directory
    cfg,         \* behaviour of src.config: [imp, acc, attr] -> outcome
    routes,      \* behaviour of each route module when executed
    sysPath,     \* sys.path
    sysModules,  \* sys.modules (names of loaded modules)
    pc,          \* position in the script
    all_good,    \* validate-setup.py main(): all_good
    imports_ok,  \* test-startup.py main(): imports_ok
    api_ok,      \* test-startup.py main(): api_ok
    results,     \* CheckResult of each check: "none" | "pass" | "fail"
    errKind,     \* which except clause reported the configuration probe
    trace,       \* the checks attempted so far in this run, in order
    out,         \* the lines printed by this run of main(), in order
    ret,         \* the value main() returned, << >> while it has not returned
    run,         \* number of the current run
    prev,        \* what the previous run ended with
    removed      \* the required path removed before this run, or "none"

vars == <<flow, tree, invokeDir, cwd, cfg, routes, sysPath, sysModules, pc,
          all_good, imports_ok, api_ok, results, errKind, trace, out, ret,
          run, prev, removed>>

----------------------------------------------------------------------------
(* Bounds of the model *)

\* an initial project tree deviates from the complete one at no more paths
MaxDefects == 1

\* main() is run at most this many times
MaxRuns == 2

----------------------------------------------------------------------------
(* The declared checks *)

\* validate-setup.py: structure_checks, the paths in declaration order
structure_checks ==
    << "backend/src/main.py", "backend/src/config.py", "backend/requirements.txt",
       "backend/alembic.ini", "frontend/package.json", "docker-compose.yml",
       ".env.example" >>

\* validate-setup.py: directory_checks, the paths in declaration order
directory_checks ==
    << "backend/src/api", "backend/src/models", "backend/src/services",
       "backend/tests", "frontend/src", "backend/alembic/versions" >>

\* test-startup.py: the route modules test_api_structure imports, in order
route_modules ==
    << "src.api.v1.health", "src.api.v1.photos", "src.api.v1.albums" >>

Range(s) == { s[k] : k \in 1..Len(s) }

FilePaths == Range(structure_checks)
DirPaths  == Range(directory_checks)
Paths     == FilePaths \cup DirPaths
RouteSet  == Range(route_modules)

ConfigModule == "src.config"
ConfigPath   == "backend/src/config.py"   \* the file src.config is loaded from
ApiDir       == "backend/src/api"         \* the package the route modules live in
ConfigCheck  == "config"                  \* the validator's configuration probe
BasicCheck   == "test_basic_imports"
ApiCheck     == "test_api_structure"
Checks       == Paths \cup {ConfigCheck, BasicCheck, ApiCheck}

----------------------------------------------------------------------------
(* The environment: filesystem and module behaviour *)

Kinds == {"absent", "file", "dir"}

\* the complete project: every structure_checks path a file, every
\* directory_checks path a directory
Expected == [p \in Paths |-> IF p \in FilePaths THEN "file" ELSE "dir"]

OtherKind(p) == IF p \in FilePaths THEN "dir" ELSE "file"

\* trees that deviate from the complete project at the paths S: a path of
\* A is absent, a path of S \ A holds an entry of the other kind
Deviate(S, A) ==
    [p \in Paths |-> IF p \in A THEN "absent"
                     ELSE IF p \in S THEN OtherKind(p) ELSE Expected[p]]

Trees ==
    UNION { { Deviate(S, A) : A \in SUBSET S } :
            S \in { X \in SUBSET Paths : Cardinality(X) <= MaxDefects } }

\* what a relative path resolves to from directory d; a directory other
\* than the project root holds none of the required paths
FS(d) == IF d = "root" THEN tree ELSE [p \in Paths |-> "absent"]

\* what executing a module, calling get_settings() or reading app_name does:
\* "ok", or it raises ImportError, another Exception subclass, or a
\* BaseException that is no Exception (SystemExit, KeyboardInterrupt)
Raises   == {"ImportError", "Exception", "BaseException"}
Outcomes == {"ok"} \cup Raises

\* behaviours of src.config; a step that is never reached is left "ok"
CfgBehaviours ==
    { b \in [imp : Outcomes, acc : Outcomes, attr : Outcomes] :
        /\ b.imp # "ok" => (b.acc = "ok" /\ b.attr = "ok")
        /\ b.acc # "ok" => b.attr = "ok" }

\* every behaviour of the three route modules
RouteBehaviours == [RouteSet -> Outcomes]

----------------------------------------------------------------------------
(* Python semantics the scripts rely on *)

\* isinstance(raised, cls) for the two classes the except clauses name
IsInstance(raised, cls) ==
    \/ cls = "ImportError" /\ raised = "ImportError"
    \/ cls = "Exception"   /\ raised \in {"ImportError", "Exception"}

\* sys.path.insert(0, 'backend')
sys_path_insert(path) == <<"backend">> \o path

\* whether the import system finds module m: 'backend' is on sys.path
\* (a relative entry, resolved against the working directory) and the
\* file or package the module is loaded from is there
Resolvable(m, path, fs) ==
    /\ "backend" \in Range(path)
    /\ m = ConfigModule => fs[ConfigPath] = "file"
    /\ m \in RouteSet => fs[ApiDir] = "dir"

\* outcome of "from m import ...": a loaded module is taken from
\* sys.modules without being executed again, an unresolvable one raises
\* ImportError, otherwise the module body runs and does what it does
ImportOutcome(m, mods, path, fs, beh) ==
    IF m \in mods THEN "ok"
    ELSE IF ~Resolvable(m, path, fs) THEN "ImportError"
    ELSE beh

\* a failed import leaves the module cached (sys.modules keeps the entry)
ModulesAfterImport_keep_failed(mods, m, outcome) == mods \cup {m}

\* sys.modules after the import: a module whose import raised is removed
ModulesAfterImport(mods, m, outcome) ==
    IF outcome = "ok" THEN mods \cup {m} ELSE mods

Line(c, g, t) == [check |-> c, glyph |-> g, text |-> t]

----------------------------------------------------------------------------
(* validate-setup.py *)

\* Path(file_path).exists(): true of any entry at the path
check_file_exists(fs, file_path) == fs[file_path] # "absent"

\* Path(dir_path).exists() and Path(dir_path).is_dir()
check_directory_exists(fs, dir_path) ==
    fs[dir_path] # "absent" /\ fs[dir_path] = "dir"

\* all_good is overwritten by the outcome of the latest check
UpdateAllGood_overwrite(good, ok) == ok

\* "if not check(...): all_good = False"
UpdateAllGood(good, ok) == IF ~ok THEN FALSE ELSE good

\* one iteration of either loop: call the check, which prints its line,
\* then update all_good
Iteration(st, p, ok) ==
    [ all_good |-> UpdateAllGood(st.all_good, ok),
      results  |-> [st.results EXCEPT ![p] = IF ok THEN "pass" ELSE "fail"],
      out      |-> Append(st.out, Line(p, IF ok THEN "pass" ELSE "fail",
                                       IF ok THEN p ELSE "NOT FOUND")),
      trace    |-> Append(st.trace, p) ]

\* a loop that stops at the first failing check
RECURSIVE structure_loop_break(_, _, _)
structure_loop_break(fs, k, st) ==
    IF k > Len(structure_checks) \/ ~st.all_good THEN st
    ELSE structure_loop_break(fs, k + 1,
             Iteration(st, structure_checks[k],
                       check_file_exists(fs, structure_checks[k])))

\* "for file_path, description in structure_checks:" from entry k on
RECURSIVE structure_loop(_, _, _)
structure_loop(fs, k, st) ==
    IF k > Len(structure_checks) THEN st
    ELSE structure_loop(fs, k + 1,
             Iteration(st, structure_checks[k],
                       check_file_exists(fs, structure_checks[k])))

\* "for dir_path, description in directory_checks:" from entry k on
RECURSIVE directory_loop(_, _, _)
directory_loop(fs, k, st) ==
    IF k > Len(directory_checks) THEN st
    ELSE directory_loop(fs, k + 1,
             Iteration(st, directory_checks[k],
                       check_directory_exists(fs, directory_checks[k])))

Locals == [all_good |-> all_good, results |-> results, out |-> out, trace |-> trace]

envVars  == <<flow, tree, invokeDir, cfg, routes>>
histVars == <<run, prev, removed>>

\* "if __name__ == '__main__': sys.exit(main())": the working directory
\* stays the one the script was invoked from
ValidatorLaunch ==
    /\ flow = "validate" /\ pc = "launch"
    /\ pc' = "main"
    /\ UNCHANGED <<envVars, histVars, cwd, sysPath, sysModules, all_good,
                   imports_ok, api_ok, results, errKind, trace, out, ret>>

\* main(): the header and "all_good = True"
ValidatorBegin ==
    /\ flow = "validate" /\ pc = "main"
    /\ all_good' = TRUE
    /\ out' = Append(out, Line("header", "info", "Setup Validation"))
    /\ pc' = "structure"
    /\ UNCHANGED <<envVars, histVars, cwd, sysPath, sysModules, imports_ok,
                   api_ok, results, errKind, trace, ret>>

\* "1. Project Structure": the loop over structure_checks
StructureChecks ==
    /\ flow = "validate" /\ pc = "structure"
    /\ LET st == structure_loop(FS(cwd), 1, Locals) IN
         /\ all_good' = st.all_good
         /\ results' = st.results
         /\ out' = st.out
         /\ trace' = st.trace
    /\ pc' = "directories"
    /\ UNCHANGED <<envVars, histVars, cwd, sysPath, sysModules, imports_ok,
                   api_ok, errKind, ret>>

\* "2. Directory Structure": the loop over directory_checks
DirectoryChecks ==
    /\ flow = "validate" /\ pc = "directories"
    /\ LET st == directory_loop(FS(cwd), 1, Locals) IN
         /\ all_good' = st.all_good
         /\ results' = st.results
         /\ out' = st.out
         /\ trace' = st.trace
    /\ pc' = "cfg_import"
    /\ UNCHANGED <<envVars, histVars, cwd, sysPath, sysModules, imports_ok,
                   api_ok, errKind, ret>>

\* the except clauses of the configuration probe, for an exception raised
\* anywhere in its try block: "except ImportError" is tried first, then
\* "except Exception"; anything else leaves main()
ConfigExcept(raised) ==
    IF IsInstance(raised, "ImportError") THEN
        /\ out' = Append(out, Line(ConfigCheck, "fail", "Configuration import failed"))
        /\ errKind' = "ImportFailure"
        /\ all_good' = FALSE
        /\ results' = [results EXCEPT ![ConfigCheck] = "fail"]
        /\ pc' = "summary"
    ELSE IF IsInstance(raised, "Exception") THEN
        /\ out' = Append(out, Line(ConfigCheck, "fail", "Configuration error"))
        /\ errKind' = "RuntimeFailure"
        /\ all_good' = FALSE
        /\ results' = [results EXCEPT ![ConfigCheck] = "fail"]
        /\ pc' = "summary"
    ELSE
        /\ pc' = "fault"
        /\ UNCHANGED <<out, errKind, all_good, results>>

\* "sys.path.insert(0, 'backend')" and "from src.config import get_settings"
ConfigImport ==
    /\ flow = "validate" /\ pc = "cfg_import"
    /\ sysPath' = sys_path_insert(sysPath)
    /\ trace' = Append(trace, ConfigCheck)
    /\ LET o == ImportOutcome(ConfigModule, sysModules, sysPath', FS(cwd), cfg.imp) IN
         /\ sysModules' = ModulesAfterImport(sysModules, ConfigModule, o)
         /\ IF o = "ok"
            THEN /\ pc' = "cfg_settings"
                 /\ UNCHANGED <<out, errKind, all_good, results>>
            ELSE ConfigExcept(o)
    /\ UNCHANGED <<envVars, histVars, cwd, imports_ok, api_ok, ret>>

\* "settings = get_settings()" and the "Configuration loaded successfully" line
ConfigSettings ==
    /\ flow = "validate" /\ pc = "cfg_settings"
    /\ IF cfg.acc = "ok"
       THEN /\ out' = Append(out, Line(ConfigCheck, "pass", "Configuration loaded successfully"))
            /\ pc' = "cfg_app_name"
            /\ UNCHANGED <<errKind, all_good, results>>
       ELSE ConfigExcept(cfg.acc)
    /\ UNCHANGED <<envVars, histVars, cwd, sysPath, sysModules, imports_ok,
                   api_ok, trace, ret>>

\* print(f"App name: {settings.app_name}"): the last statement of the try block
ConfigAppName ==
    /\ flow = "validate" /\ pc = "cfg_app_name"
    /\ IF cfg.attr = "ok"
       THEN /\ out' = Append(out, Line(ConfigCheck, "pass", "App name"))
            /\ results' = [results EXCEPT ![ConfigCheck] = "pass"]
            /\ pc' = "summary"
            /\ UNCHANGED <<errKind, all_good>>
       ELSE ConfigExcept(cfg.attr)
    /\ UNCHANGED <<envVars, histVars, cwd, sysPath, sysModules, imports_ok,
                   api_ok, trace, ret>>

\* "Summary": the verdict banner, the next steps on success, the status
Summary ==
    /\ flow = "validate" /\ pc = "summary"
    /\ IF all_good
       THEN /\ out' = out \o << Line("banner", "pass", "All validations passed"),
                                Line("banner", "info", "Next steps") >>
            /\ ret' = <<0>>
       ELSE /\ out' = Append(out, Line("banner", "fail", "Some validations failed"))
            /\ ret' = <<1>>
    /\ pc' = "done"
    /\ UNCHANGED <<envVars, histVars, cwd, sysPath, sysModules, all_good,
                   imports_ok, api_ok, results, errKind, trace>>

----------------------------------------------------------------------------
(* test-startup.py *)

\* position of test_api_structure before each of its three imports
ApiPc == << "api_health", "api_photos", "api_albums" >>

\* "sys.path.insert(0, 'backend')" at module level, then the __main__
\* block: os.chdir(Path(__file__).parent.parent) and main()
ProberLaunch ==
    /\ flow = "startup" /\ pc = "launch"
    /\ sysPath' = sys_path_insert(sysPath)
    /\ cwd' = "root"
    /\ pc' = "main"
    /\ UNCHANGED <<envVars, histVars, sysModules, all_good, imports_ok, api_ok,
                   results, errKind, trace, out, ret>>

\* main(): the header
ProberBegin ==
    /\ flow = "startup" /\ pc = "main"
    /\ out' = Append(out, Line("header", "info", "startup test"))
    /\ pc' = "basic_import"
    /\ UNCHANGED <<envVars, histVars, cwd, sysPath, sysModules, all_good,
                   imports_ok, api_ok, results, errKind, trace, ret>>

\* "except Exception as e" of test_basic_imports: report, return False
BasicExcept(raised) ==
    IF IsInstance(raised, "Exception") THEN
        /\ out' = Append(out, Line(BasicCheck, "fail", "config import failed"))
        /\ imports_ok' = FALSE
        /\ results' = [results EXCEPT ![BasicCheck] = "fail"]
        /\ pc' = ApiPc[1]
    ELSE
        /\ pc' = "fault"
        /\ UNCHANGED <<out, imports_ok, results>>

\* test_basic_imports: "from src.config import get_settings" and its line
BasicImport ==
    /\ flow = "startup" /\ pc = "basic_import"
    /\ trace' = Append(trace, ConfigModule)
    /\ LET o == ImportOutcome(ConfigModule, sysModules, sysPath, FS(cwd), cfg.imp) IN
         /\ sysModules' = ModulesAfterImport(sysModules, ConfigModule, o)
         /\ IF o = "ok"
            THEN /\ out' = Append(out, Line(BasicCheck, "pass", "config imported"))
                 /\ pc' = "basic_settings"
                 /\ UNCHANGED <<imports_ok, results>>
            ELSE BasicExcept(o)
    /\ UNCHANGED <<envVars, histVars, cwd, sysPath, all_good, api_ok, errKind, ret>>

\* test_basic_imports: "settings = get_settings()", the line that reads
\* settings.app_name, "return True"
BasicSettings ==
    /\ flow = "startup" /\ pc = "basic_settings"
    /\ trace' = Append(trace, "get_settings")
    /\ LET o == IF cfg.acc # "ok" THEN cfg.acc ELSE cfg.attr IN
         IF o = "ok"
         THEN /\ out' = Append(out, Line(BasicCheck, "pass", "app name"))
              /\ imports_ok' = TRUE
              /\ results' = [results EXCEPT ![BasicCheck] = "pass"]
              /\ pc' = ApiPc[1]
         ELSE BasicExcept(o)
    /\ UNCHANGED <<envVars, histVars, cwd, sysPath, sysModules, all_good, api_ok,
                   errKind, ret>>

\* test_api_structure: its k-th import and the line after it; the last one
\* is followed by "return True"; "except Exception" reports and returns False
ApiImport(k) ==
    /\ flow = "startup" /\ pc = ApiPc[k]
    /\ trace' = Append(trace, route_modules[k])
    /\ LET m == route_modules[k]
           o == ImportOutcome(m, sysModules, sysPath, FS(cwd), routes[m]) IN
         /\ sysModules' = ModulesAfterImport(sysModules, m, o)
         /\ IF o = "ok" THEN
                /\ out' = Append(out, Line(m, "pass", "router ready"))
                /\ IF k = Len(route_modules)
                   THEN /\ api_ok' = TRUE
                        /\ results' = [results EXCEPT ![ApiCheck] = "pass"]
                        /\ pc' = "verdict"
                   ELSE /\ pc' = ApiPc[k + 1]
                        /\ UNCHANGED <<api_ok, results>>
            ELSE IF IsInstance(o, "Exception") THEN
                /\ out' = Append(out, Line(ApiCheck, "fail", "API structure test failed"))
                /\ api_ok' = FALSE
                /\ results' = [results EXCEPT ![ApiCheck] = "fail"]
                /\ pc' = "verdict"
            ELSE
                /\ pc' = "fault"
                /\ UNCHANGED <<out, api_ok, results>>
    /\ UNCHANGED <<envVars, histVars, cwd, sysPath, all_good, imports_ok, errKind, ret>>

\* the report is shown when either test passed
Ready_either(basic, api) == basic \/ api

\* "if imports_ok and api_ok:"
Ready(basic, api) == basic /\ api

\* main(): the success banner, or the failure banner and the end of main()
Verdict ==
    /\ flow = "startup" /\ pc = "verdict"
    /\ IF Ready(imports_ok, api_ok)
       THEN /\ out' = Append(out, Line("banner", "pass", "infrastructure ready"))
            /\ pc' = "endpoints"
       ELSE /\ out' = Append(out, Line("banner", "fail", "infrastructure has problems"))
            /\ pc' = "done"
    /\ UNCHANGED <<envVars, histVars, cwd, sysPath, sysModules, all_good,
                   imports_ok, api_ok, results, errKind, trace, ret>>

\* show_available_endpoints()
ShowEndpoints ==
    /\ flow = "startup" /\ pc = "endpoints"
    /\ out' = Append(out, Line("capability", "info", "endpoints"))
    /\ pc' = "commands"
    /\ UNCHANGED <<envVars, histVars, cwd, sysPath, sysModules, all_good,
                   imports_ok, api_ok, results, errKind, trace, ret>>

\* show_startup_commands(), which ends with the database and Redis note,
\* then the closing hint of main()
ShowCommands ==
    /\ flow = "startup" /\ pc = "commands"
    /\ out' = out \o << Line("capability", "info", "startup commands"),
                        Line("capability", "info", "database and Redis note"),
                        Line("hint", "info", "API docs hint") >>
    /\ pc' = "done"
    /\ UNCHANGED <<envVars, histVars, cwd, sysPath, sysModules, all_good,
                   imports_ok, api_ok, results, errKind, trace, ret>>

----------------------------------------------------------------------------
(* Runs *)

NoResults == [c \in Checks |-> "none"]

Ended == pc \in {"done", "fault"}

\* what a run ended with
Outcome == [results |-> results, ret |-> ret, out |-> out, trace |-> trace, pc |-> pc]

\* main() is called again in the same process, the project tree unchanged:
\* its locals are fresh, sys.path and sys.modules are as the last run left them
Rerun ==
    /\ Ended /\ run < MaxRuns
    /\ run' = run + 1
    /\ prev' = Outcome
    /\ removed' = "none"
    /\ pc' = "main"
    /\ all_good' = FALSE /\ imports_ok' = FALSE /\ api_ok' = FALSE
    /\ results' = NoResults /\ errKind' = "none"
    /\ trace' = << >> /\ out' = << >> /\ ret' = << >>
    /\ UNCHANGED <<envVars, cwd, sysPath, sysModules>>

\* required path p is removed from the tree the first run saw, and the
\* validator is started again in a new process from the same directory
RemoveAndRelaunch(p) ==
    /\ flow = "validate" /\ Ended /\ run = 1 /\ run < MaxRuns
    /\ FS(cwd)[p] # "absent"
    /\ tree' = [tree EXCEPT ![p] = "absent"]
    /\ run' = run + 1
    /\ prev' = Outcome
    /\ removed' = p
    /\ pc' = "launch"
    /\ cwd' = invokeDir
    /\ sysPath' = << "scripts" >>
    /\ sysModules' = {}
    /\ all_good' = FALSE /\ imports_ok' = FALSE /\ api_ok' = FALSE
    /\ results' = NoResults /\ errKind' = "none"
    /\ trace' = << >> /\ out' = << >> /\ ret' = << >>
    /\ UNCHANGED <<flow, invokeDir, cfg, routes>>

----------------------------------------------------------------------------
(* Specification *)

InitProcess ==
    /\ cwd = invokeDir
    /\ sysPath = << "scripts" >>      \* sys.path[0] is the script's directory
    /\ sysModules = {}
    /\ pc = "launch"
    /\ all_good = FALSE /\ imports_ok = FALSE /\ api_ok = FALSE
    /\ results = NoResults /\ errKind = "none"
    /\ trace = << >> /\ out = << >> /\ ret = << >>
    /\ run = 1
    /\ prev = [results |-> NoResults, ret |-> << >>, out |-> << >>,
               trace |-> << >>, pc |-> "none"]
    /\ removed = "none"

\* the validator reads every required path; it imports no route module
InitValidator ==
    /\ flow = "validate"
    /\ tree \in Trees
    /\ invokeDir \in {"root", "elsewhere"}
    /\ cfg \in CfgBehaviours
    /\ routes = [r \in RouteSet |-> "ok"]
    /\ InitProcess

\* the prober reads the tree only through its imports
InitProber ==
    /\ flow = "startup"
    /\ tree \in { t \in Trees :
                    \A p \in Paths \ {ConfigPath, ApiDir} : t[p] = Expected[p] }
    /\ invokeDir \in {"root", "elsewhere"}
    /\ cfg \in CfgBehaviours
    /\ routes \in RouteBehaviours
    /\ InitProcess

Init == InitValidator \/ InitProber

Next ==
    \/ ValidatorLaunch
    \/ ValidatorBegin
    \/ StructureChecks
    \/ DirectoryChecks
    \/ ConfigImport
    \/ ConfigSettings
    \/ ConfigAppName
    \/ Summary
    \/ ProberLaunch
    \/ ProberBegin
    \/ BasicImport
    \/ BasicSettings
    \/ \E k \in 1..Len(route_modules) : ApiImport(k)
    \/ Verdict
    \/ ShowEndpoints
    \/ ShowCommands
    \/ Rerun
    \/ \E p \in Paths : RemoveAndRelaunch(p)

Spec == Init /\ [][Next]_vars

----------------------------------------------------------------------------
(* Properties *)

ValidatorChecks == Paths \cup {ConfigCheck}

\* the checks each flow declares, in declaration order
ValidatorDeclared == structure_checks \o directory_checks \o <<ConfigCheck>>
ProberDeclared    == <<ConfigModule, "get_settings">> \o route_modules

Printed(c, g) == \E k \in DOMAIN out : out[k].check = c /\ out[k].glyph = g
PrintedText(t) == \E k \in DOMAIN out : out[k].text = t

\* src.config was imported and its accessor and app_name field work
ConfigLoads ==
    ConfigModule \in sysModules /\ cfg.acc = "ok" /\ cfg.attr = "ok"

\* C1: when the Structural Validator's main() returns, it returns 0 if
\* every one of the seven file checks, the six directory checks and the
\* configuration probe passed, and 1 otherwise; all fourteen checks have a
\* result, the configuration probe passed exactly when the configuration
\* loads, and one absent path is enough for the verdict 1.
C1_VerdictIsConjunction ==
    (flow = "validate" /\ pc = "done") =>
        /\ \A c \in ValidatorChecks : results[c] \in {"pass", "fail"}
        /\ ret = IF \A c \in ValidatorChecks : results[c] = "pass"
                 THEN <<0>> ELSE <<1>>
        /\ results[ConfigCheck] = "pass" <=> ConfigLoads
        /\ \A p \in Paths :
              FS(cwd)[p] = "absent" => (results[p] = "fail" /\ ret = <<1>>)

\* Scenario B: one required path is absent, nothing else fails, main() returned 1
C1_Witness ==
    /\ flow = "validate" /\ pc = "done" /\ ret = <<1>>
    /\ \E p \in Paths :
          /\ FS(cwd)[p] = "absent"
          /\ \A c \in ValidatorChecks : results[c] = "fail" <=> c = p

\* C2: a run that reaches its end has attempted every declared check, in
\* declaration order, whatever the earlier checks gave: the thirteen path
\* checks and the configuration probe in the Structural Validator; the
\* configuration import, the settings read and the three route imports in
\* the Startup Prober.
C2_EveryCheckAttempted ==
    pc = "done" =>
        trace = IF flow = "validate" THEN ValidatorDeclared ELSE ProberDeclared

\* C3: no run of either main() ends with an exception leaving main();
\* every failure of a probed module becomes a failed CheckResult.
C3_NoFaultEscapes == pc # "fault"

\* C4: in a run of the Structural Validator that reaches its verdict, if
\* src.config was imported and the settings accessor or the read of
\* app_name raised, the probe is reported as a RuntimeFailure (the
\* "Configuration error" line) and main() returns 1; an ImportFailure is
\* reported only when the module itself could not be loaded.
C4_RuntimeFailureClassified ==
    (flow = "validate" /\ pc = "done") =>
        /\ (ConfigModule \in sysModules /\ ~ConfigLoads) =>
              /\ errKind = "RuntimeFailure"
              /\ PrintedText("Configuration error")
              /\ ~PrintedText("Configuration import failed")
              /\ ret = <<1>>
        /\ errKind = "ImportFailure" => ConfigModule \notin sysModules

\* every import of the prober succeeded and the settings could be read
AllProbesOk == ConfigLoads /\ RouteSet \subseteq sysModules

CapabilityShown == Printed("capability", "info")

\* C5: the Startup Prober prints the capability report only if the
\* configuration probe and all three route imports succeeded, never
\* together with the failure banner; a run that reaches its end has printed
\* the whole report (endpoints, startup commands, database note) if they
\* all succeeded, and the failure banner and nothing of the report if not.
C5_ReportIffAllOk ==
    flow = "startup" =>
        /\ CapabilityShown => (AllProbesOk /\ ~Printed("banner", "fail"))
        /\ pc = "done" =>
              IF AllProbesOk
              THEN /\ PrintedText("endpoints")
                   /\ PrintedText("startup commands")
                   /\ PrintedText("database and Redis note")
                   /\ ~Printed("banner", "fail")
              ELSE /\ Printed("banner", "fail")
                   /\ ~CapabilityShown
                   /\ ~Printed("banner", "pass")

\* Scenario D: everything loads and the prober has printed the report
C5_Witness ==
    /\ flow = "startup" /\ pc = "done" /\ run = 1
    /\ \A m \in RouteSet : routes[m] = "ok"
    /\ PrintedText("endpoints") /\ PrintedText("startup commands")

\* C6: an existence check passes if and only if an entry of the expected
\* kind is at the path: a file for a structure_checks path, a directory for
\* a directory_checks path.
C6_ExistenceMatchesKind ==
    \A p \in Paths :
        results[p] # "none" =>
            (results[p] = "pass" <=> FS(cwd)[p] = Expected[p])

\* C7 as stated: the run on the tree with one required path removed differs
\* from the run on the original tree only in the CheckResult of the check
\* for that path; every other check, the configuration probe included,
\* keeps its outcome.
C7_OnlyThatCheckChanges ==
    (flow = "validate" /\ pc = "done" /\ prev.pc = "done" /\ removed # "none") =>
        \A c \in ValidatorChecks \ {removed} :
            results[c] # "none" /\ results[c] = prev.results[c]

\* C7 amended: the run on the tree with required path p removed attempts the
\* same checks as the run on the original tree and differs from it only in
\* the CheckResult of the check for p and, when p is backend/src/config.py,
\* in the configuration probe, which then fails as an ImportFailure.
C7_OnlyDependentChecksChange ==
    (flow = "validate" /\ Ended /\ removed # "none") =>
        /\ trace = ValidatorDeclared /\ prev.trace = ValidatorDeclared
        /\ results[removed] = "fail"
        /\ \A c \in ValidatorChecks \ {removed} :
              IF c = ConfigCheck /\ removed = ConfigPath
              THEN results[c] = "fail" /\ errKind = "ImportFailure"
              ELSE results[c] = prev.results[c]

\* Scenario B: the complete project passed, then the dependency manifest
\* was removed and the validator returned 1
C7_Witness ==
    /\ flow = "validate" /\ pc = "done"
    /\ removed = "backend/requirements.txt"
    /\ prev.ret = <<0>> /\ ret = <<1>>

C9_WorkingDirNormalized ==
    pc \notin {"launch", "main"} =>
        /\ cwd = "root"
        /\ \A p \in FilePaths :
              results[p] # "none" => (results[p] = "pass" <=> check_file_exists(tree, p))
        /\ \A p \in DirPaths :
              results[p] # "none" => (results[p] = "pass" <=> check_directory_exists(tree, p))

\* C10: in a run of the Structural Validator no check has both a pass
\* line and a fail line, and a check whose CheckResult is false has no
\* pass line.
C10_OnePolarityPerCheck ==
    flow = "validate" =>
        \A c \in ValidatorChecks :
            /\ ~(Printed(c, "pass") /\ Printed(c, "fail"))
            /\ results[c] = "fail" => ~Printed(c, "pass")

====
